---- MODULE Spec2Model ----
(***************************************************************************)
(* Model of config/search.js: lookup of identity-service users by phone   *)
(* number.  Three exported async functions (findUserByPhoneNumber,        *)
(* findUsersByPhoneNumbers, getUserDetailsByPhoneNumber) and the CLI      *)
(* entry point, each modelled as an invocation that advances from one     *)
(* await point to the next.  The remote SDK call                          *)
(* admin.auth().getUserByPhoneNumber is the environment: it answers each  *)
(* request with a user record or with an error.                           *)
(***************************************************************************)
EXTENDS Integers, Sequences, FiniteSets, TLC

(***************************************************************************)
(* Bounds                                                                  *)
(***************************************************************************)
\* longest phoneNumbers array passed to findUsersByPhoneNumbers
MaxLen == 2
\* longest phoneNumbers array when two invocations run concurrently
ConcMaxLen == 2

\* invocation slots; slot 2 is used only by the concurrent specification
AllCalls == {1, 2}

(***************************************************************************)
(* JavaScript values that can be passed as phoneNumber                     *)
(***************************************************************************)
JsUndefined == [typ |-> "undefined", num |-> 0, str |-> <<>>]
JsNumber(n) == [typ |-> "number", num |-> n, str |-> <<>>]
JsString(s) == [typ |-> "string", num |-> 0, str |-> s]

\* the arguments tried: undefined, 7, "", "12", "1+", "+1", "+2"
PhoneValues ==
  { JsUndefined, JsNumber(7), JsString(<<>>), JsString(<<"1", "2">>),
    JsString(<<"1", "+">>), JsString(<<"+", "1">>), JsString(<<"+", "2">>) }

\* the arguments tried by concurrent invocations: "12", "+1"
ConcPhoneValues == { JsString(<<"1", "2">>), JsString(<<"+", "1">>) }

\* process.argv[2]: absent (undefined) or a string
ArgvValues == { v \in PhoneValues : v.typ \in {"undefined", "string"} }

\* JavaScript's !v
IsFalsy(v) ==
  \/ v.typ \in {"undefined", "null"}
  \/ v.typ = "number" /\ v.num = 0
  \/ v.typ = "string" /\ v.str = <<>>

\* JavaScript's typeof v
TypeOf(v) == IF v.typ = "null" THEN "object" ELSE v.typ

\* String.prototype.startsWith
StartsWith(s, prefix) ==
  /\ Len(s) >= Len(prefix)
  /\ SubSeq(s, 1, Len(prefix)) = prefix

(***************************************************************************)
(* Errors: the code reads only error.code and error.message                *)
(***************************************************************************)
NoCode == "undefined"
NotFoundCode == "auth/user-not-found"

ErrNonEmptyString ==
  [code |-> NoCode, message |-> "Phone number must be a non-empty string"]
ErrE164 ==
  [code |-> NoCode,
   message |-> "Phone number must be in E.164 format (e.g., +1234567890)"]

ErrNotFound ==
  [code |-> NotFoundCode,
   message |-> "There is no user record corresponding to the provided identifier."]
ErrInternal ==
  [code |-> "auth/internal-error", message |-> "An internal error has occurred."]
ErrNetwork == [code |-> NoCode, message |-> "socket hang up"]

(***************************************************************************)
(* User records as the SDK returns them                                    *)
(***************************************************************************)
Undef == "undefined"
NoClaims == [typ |-> "undefined", keys |-> {}]
Claims(ks) == [typ |-> "object", keys |-> ks]

ProviderPhone ==
  [uid |-> "+1", displayName |-> Undef, email |-> Undef, phoneNumber |-> "+1",
   photoURL |-> Undef, providerId |-> "phone"]
ProviderPassword ==
  [uid |-> "ann@x.io", displayName |-> "Ann", email |-> "ann@x.io",
   phoneNumber |-> Undef, photoURL |-> Undef, providerId |-> "password"]

UserAnn ==
  [uid |-> "u1", email |-> "ann@x.io", phoneNumber |-> "+1",
   displayName |-> "Ann", photoURL |-> Undef, emailVerified |-> TRUE,
   disabled |-> FALSE,
   metadata |-> [creationTime |-> "t1", lastSignInTime |-> "t2",
                 lastRefreshTime |-> "t3"],
   customClaims |-> NoClaims,
   providerData |-> <<ProviderPhone, ProviderPassword>>,
   tenantId |-> Undef]
UserBob ==
  [uid |-> "u2", email |-> Undef, phoneNumber |-> "+2",
   displayName |-> Undef, photoURL |-> "http://x.io/bob.png",
   emailVerified |-> FALSE, disabled |-> TRUE,
   metadata |-> [creationTime |-> "t4", lastSignInTime |-> Undef,
                 lastRefreshTime |-> Undef],
   customClaims |-> Claims({"admin"}),
   providerData |-> <<>>,
   tenantId |-> "tenant-1"]

\* what the remote call settles with: a record, or an error
Fulfilled(u) == [ok |-> TRUE, user |-> u]
Failed(e) == [ok |-> FALSE, error |-> e]
Responses ==
  { Fulfilled(UserAnn), Fulfilled(UserBob), Failed(ErrNotFound),
    Failed(ErrInternal), Failed(ErrNetwork) }
ConcResponses == { Fulfilled(UserAnn), Failed(ErrNotFound), Failed(ErrInternal) }

(***************************************************************************)
(* Settled promises                                                        *)
(***************************************************************************)
Pending == [kind |-> "pending"]
Resolved(v) == [kind |-> "resolved", value |-> v]
Rejected(e) == [kind |-> "rejected", error |-> e]
JsNull == [tag |-> "null"]
RecordValue(u) == [tag |-> "record", user |-> u]
DetailsValue(d) == [tag |-> "details", details |-> d]
BatchValue(f, n) == [tag |-> "batch", found |-> f, notFound |-> n]

(***************************************************************************)
(* findUserByPhoneNumber: validation and the catch block                   *)
(***************************************************************************)
Valid == [ok |-> TRUE]

\* variant: the E.164 prefix check is missing
ValidateTypeOnly(phoneNumber) ==
  IF IsFalsy(phoneNumber) \/ TypeOf(phoneNumber) # "string"
    THEN Failed(ErrNonEmptyString)
    ELSE Valid

\* lines 16-23: the two validation throws, in order
Validate(phoneNumber) ==
  IF IsFalsy(phoneNumber) \/ TypeOf(phoneNumber) # "string"
    THEN Failed(ErrNonEmptyString)
    ELSE IF ~StartsWith(phoneNumber.str, <<"+">>)
           THEN Failed(ErrE164)
           ELSE Valid

\* variant: the catch block treats every error as "not found"
CatchFindSwallowAll(error) == Resolved(JsNull)

\* lines 40-48: what the catch block makes of a thrown error
CatchFind(error) ==
  IF error.code = NotFoundCode THEN Resolved(JsNull) ELSE Rejected(error)

\* lines 42 and 45: what the catch block prints
CatchFindLog(error) ==
  IF error.code = NotFoundCode
    THEN "log: No user found with phone number"
    ELSE "error: Error searching for user by phone number"

\* lines 26-48: how the call settles once the remote call has settled
FindSettle(resp) ==
  IF resp.ok THEN Resolved(RecordValue(resp.user)) ELSE CatchFind(resp.error)

FindSettleLog(resp) ==
  IF resp.ok THEN "log: User found" ELSE CatchFindLog(resp.error)

(***************************************************************************)
(* findUsersByPhoneNumbers: one iteration of the loop body                 *)
(***************************************************************************)
\* JavaScript truthiness of a resolved value: null is falsy, objects are truthy
IsTruthyValue(v) == v.tag # "null"

\* variant: the catch block only logs, the number is recorded nowhere
BatchAccumulateDropErrors(acc, phoneNumber, result) ==
  IF result.kind = "resolved"
    THEN IF IsTruthyValue(result.value)
           THEN [acc EXCEPT !.found = Append(@, result.value.user)]
           ELSE [acc EXCEPT !.notFound = Append(@, phoneNumber)]
    ELSE acc

\* lines 62-71: acc is [found, notFound]; result is the settled inner call
BatchAccumulate(acc, phoneNumber, result) ==
  IF result.kind = "resolved"
    THEN IF IsTruthyValue(result.value)
           THEN [acc EXCEPT !.found = Append(@, result.value.user)]
           ELSE [acc EXCEPT !.notFound = Append(@, phoneNumber)]
    ELSE [acc EXCEPT !.notFound = Append(@, phoneNumber)]

\* line 69
BatchLog(result) ==
  IF result.kind = "rejected" THEN <<"error: Error searching for">> ELSE <<>>

\* variant: a failed lookup is tried again
NextIndexRetry(i, result) == IF result.kind = "rejected" THEN i ELSE i + 1

\* variant: a failed lookup ends the loop
NextIndexAbort(i, result) ==
  IF result.kind = "rejected" THEN i + MaxLen + 1 ELSE i + 1

\* line 60: the for-of loop moves to the next element whatever the body did
NextIndex(i, result) == i + 1

(***************************************************************************)
(* getUserDetailsByPhoneNumber: shaping of the record                      *)
(***************************************************************************)
\* lines 105-112
ShapeProvider(provider) ==
  [uid |-> provider.uid, displayName |-> provider.displayName,
   email |-> provider.email, phoneNumber |-> provider.phoneNumber,
   photoURL |-> provider.photoURL, providerId |-> provider.providerId]

\* variant: customClaims is copied without the default
ClaimsOrEmptyRaw(customClaims) == customClaims

\* line 104: userRecord.customClaims || {}
ClaimsOrEmpty(customClaims) ==
  IF customClaims.typ = "undefined" THEN Claims({}) ELSE customClaims

\* lines 91-113
ShapeDetails(userRecord) ==
  [uid |-> userRecord.uid, email |-> userRecord.email,
   phoneNumber |-> userRecord.phoneNumber,
   displayName |-> userRecord.displayName,
   photoURL |-> userRecord.photoURL,
   emailVerified |-> userRecord.emailVerified,
   disabled |-> userRecord.disabled,
   metadata |-> [creationTime |-> userRecord.metadata.creationTime,
                 lastSignInTime |-> userRecord.metadata.lastSignInTime,
                 lastRefreshTime |-> userRecord.metadata.lastRefreshTime],
   customClaims |-> ClaimsOrEmpty(userRecord.customClaims),
   providerData |-> [i \in 1..Len(userRecord.providerData) |->
                       ShapeProvider(userRecord.providerData[i])]]

\* variant: the catch block returns null instead of rethrowing
DetailsSettleSwallow(result) ==
  IF result.kind = "resolved"
    THEN IF ~IsTruthyValue(result.value)
           THEN Resolved(JsNull)
           ELSE Resolved(DetailsValue(ShapeDetails(result.value.user)))
    ELSE Resolved(JsNull)

\* lines 83-117: result is the settled inner call
DetailsSettle(result) ==
  IF result.kind = "resolved"
    THEN IF ~IsTruthyValue(result.value)
           THEN Resolved(JsNull)
           ELSE Resolved(DetailsValue(ShapeDetails(result.value.user)))
    ELSE Rejected(result.error)

\* line 115
DetailsLog(result) ==
  IF result.kind = "rejected" THEN <<"error: Error getting user details">> ELSE <<>>

(***************************************************************************)
(* CLI entry point                                                         *)
(***************************************************************************)
NoExit == "none"

\* variant: the "no user" branch does not exit
CliExitOnErrorOnly(result) ==
  IF result.kind = "resolved" THEN NoExit ELSE "1"

\* lines 146-157: the status process.exit is called with, if it is called
CliExit(result) ==
  IF result.kind = "resolved"
    THEN IF IsTruthyValue(result.value) THEN NoExit ELSE "1"
    ELSE "1"

\* lines 148, 150, 155
CliLog(result) ==
  IF result.kind = "resolved"
    THEN IF IsTruthyValue(result.value)
           THEN "log: User found successfully"
           ELSE "log: No user found with this phone number"
    ELSE "error: Error"

(***************************************************************************)
(* State: one entry per invocation slot                                    *)
(***************************************************************************)
VARIABLES
  op,          \* which entry point the invocation runs; "none" when idle
  arg,         \* its argument: a phone number, an array of them, or argv[2]
  pc,          \* where the invocation stands
  phoneNumber, \* parameter of the running findUserByPhoneNumber call
  idx,         \* findUsersByPhoneNumbers: position of the loop in phoneNumbers
  found,       \* findUsersByPhoneNumbers: local array found
  notFound,    \* findUsersByPhoneNumbers: local array notFound
  findResult,  \* how the inner findUserByPhoneNumber call settled
  outcome,     \* how the exported operation settled
  exitCode,    \* CLI: status given to process.exit, NoExit while not called
  out,         \* console lines printed, in order
  requests,    \* remote getUserByPhoneNumber calls made: position, number, answer
  visited,     \* findUsersByPhoneNumbers: positions the loop has entered
  overlapped   \* history: another invocation was in progress during this one

vars == <<op, arg, pc, phoneNumber, idx, found, notFound, findResult, outcome,
          exitCode, out, requests, visited, overlapped>>

Last(s) == s[Len(s)]

\* arrays of phone numbers of length 0..n
RECURSIVE PhoneLists(_, _)
PhoneLists(values, n) ==
  IF n = 0 THEN { <<>> }
  ELSE LET shorter == PhoneLists(values, n - 1)
       IN shorter \cup { Append(l, v) : l \in { s \in shorter : Len(s) = n - 1 },
                                        v \in values }

Ops == {"find", "details", "batch", "cli"}
ConcOps == {"find", "batch"}

Inputs(o) ==
  CASE o = "batch" -> PhoneLists(PhoneValues, MaxLen)
    [] o = "cli" -> ArgvValues
    [] OTHER -> PhoneValues

ConcInputs(o) ==
  CASE o = "batch" -> PhoneLists(ConcPhoneValues, ConcMaxLen)
    [] OTHER -> ConcPhoneValues

Init ==
  /\ op = [c \in AllCalls |-> "none"]
  /\ arg = [c \in AllCalls |-> JsUndefined]
  /\ pc = [c \in AllCalls |-> "idle"]
  /\ phoneNumber = [c \in AllCalls |-> JsUndefined]
  /\ idx = [c \in AllCalls |-> 1]
  /\ found = [c \in AllCalls |-> <<>>]
  /\ notFound = [c \in AllCalls |-> <<>>]
  /\ findResult = [c \in AllCalls |-> Pending]
  /\ outcome = [c \in AllCalls |-> Pending]
  /\ exitCode = [c \in AllCalls |-> NoExit]
  /\ out = [c \in AllCalls |-> <<>>]
  /\ requests = [c \in AllCalls |-> <<>>]
  /\ visited = [c \in AllCalls |-> <<>>]
  /\ overlapped = [c \in AllCalls |-> FALSE]

\* where each entry point starts
EntryPc(o) ==
  CASE o = "batch" -> "loop"
    [] o = "cli" -> "cli_args"
    [] OTHER -> "find_validate"

\* variant: the arrays live at module level, one pair for every invocation
SharedPush(lists, c, v) == [d \in DOMAIN lists |-> v]

\* lines 57-58: found and notFound are locals of the invocation that pushes
LocalPush(lists, c, v) == [lists EXCEPT ![c] = v]

\* the invocations among calls that have started and not yet settled
InProgress(calls) == { d \in calls : pc[d] \notin {"idle", "done"} }

\* a caller invokes entry point o with argument a (lines 13, 56-58, 82, 128-129)
Invoke(c, o, a) ==
  /\ pc[c] = "idle"
  /\ op' = [op EXCEPT ![c] = o]
  /\ arg' = [arg EXCEPT ![c] = a]
  /\ pc' = [pc EXCEPT ![c] = EntryPc(o)]
  /\ phoneNumber' = [phoneNumber EXCEPT ![c] = IF o \in {"find", "details"} THEN a ELSE @]
  /\ idx' = [idx EXCEPT ![c] = 1]
  /\ found' = [found EXCEPT ![c] = <<>>]
  /\ notFound' = [notFound EXCEPT ![c] = <<>>]
  /\ overlapped' = [d \in AllCalls |->
                      IF InProgress(AllCalls \ {c}) # {}
                        THEN d = c \/ d \in InProgress(AllCalls) \/ overlapped[d]
                        ELSE overlapped[d]]
  /\ UNCHANGED <<findResult, outcome, exitCode, out, requests, visited>>

\* how the inner call's settling continues: findUserByPhoneNumber called
\* directly settles the operation; otherwise the caller's await resumes
SettleFind(c, result, line) ==
  /\ findResult' = [findResult EXCEPT ![c] = result]
  /\ out' = [out EXCEPT ![c] = Append(@, line)]
  /\ IF op[c] = "find"
       THEN /\ outcome' = [outcome EXCEPT ![c] = result]
            /\ pc' = [pc EXCEPT ![c] = "done"]
       ELSE /\ outcome' = outcome
            /\ pc' = [pc EXCEPT ![c] = "find_settled"]

\* lines 14-23, 40-48: validation throws, the catch block rethrows
FindReject(c) ==
  /\ pc[c] = "find_validate"
  /\ ~Validate(phoneNumber[c]).ok
  /\ SettleFind(c, CatchFind(Validate(phoneNumber[c]).error),
                CatchFindLog(Validate(phoneNumber[c]).error))
  /\ UNCHANGED <<op, arg, phoneNumber, idx, found, notFound, exitCode,
                 requests, visited,
                 overlapped>>

\* lines 14-26: validation passes, the remote call is made and awaited
FindRequest(c) ==
  /\ pc[c] = "find_validate"
  /\ Validate(phoneNumber[c]).ok
  /\ requests' = [requests EXCEPT ![c] =
                    Append(@, [pos |-> idx[c], phone |-> phoneNumber[c],
                               answer |-> Pending])]
  /\ pc' = [pc EXCEPT ![c] = "awaiting"]
  /\ UNCHANGED <<op, arg, phoneNumber, idx, found, notFound, findResult,
                 outcome, exitCode, out, visited,
                 overlapped>>

\* the remote service settles the pending call with resp
RemoteSettle(c, resp) ==
  /\ pc[c] = "awaiting"
  /\ requests[c] # <<>>
  /\ Last(requests[c]).answer = Pending
  /\ requests' = [requests EXCEPT ![c][Len(requests[c])].answer = resp]
  /\ pc' = [pc EXCEPT ![c] = "find_resume"]
  /\ UNCHANGED <<op, arg, phoneNumber, idx, found, notFound, findResult,
                 outcome, exitCode, out, visited,
                 overlapped>>

\* lines 26-48: the await resumes with the record or throws into the catch
FindResume(c) ==
  /\ pc[c] = "find_resume"
  /\ SettleFind(c, FindSettle(Last(requests[c]).answer),
                FindSettleLog(Last(requests[c]).answer))
  /\ UNCHANGED <<op, arg, phoneNumber, idx, found, notFound, exitCode,
                 requests, visited,
                 overlapped>>

\* line 60, 62: the loop takes the next element and calls findUserByPhoneNumber
BatchNext(c) ==
  /\ pc[c] = "loop"
  /\ idx[c] <= Len(arg[c])
  /\ phoneNumber' = [phoneNumber EXCEPT ![c] = arg[c][idx[c]]]
  /\ visited' = [visited EXCEPT ![c] = Append(@, idx[c])]
  /\ pc' = [pc EXCEPT ![c] = "find_validate"]
  /\ UNCHANGED <<op, arg, idx, found, notFound, findResult, outcome, exitCode,
                 out, requests,
                 overlapped>>

\* lines 62-72: the awaited inner call settled; push and move on
BatchResume(c) ==
  /\ pc[c] = "find_settled"
  /\ op[c] = "batch"
  /\ LET acc == BatchAccumulate([found |-> found[c], notFound |-> notFound[c]],
                                phoneNumber[c], findResult[c])
     IN /\ found' = LocalPush(found, c, acc.found)
        /\ notFound' = LocalPush(notFound, c, acc.notFound)
  /\ out' = [out EXCEPT ![c] = @ \o BatchLog(findResult[c])]
  /\ idx' = [idx EXCEPT ![c] = NextIndex(@, findResult[c])]
  /\ pc' = [pc EXCEPT ![c] = "loop"]
  /\ UNCHANGED <<op, arg, phoneNumber, findResult, outcome, exitCode,
                 requests, visited,
                 overlapped>>

\* line 74: the loop is over
BatchReturn(c) ==
  /\ pc[c] = "loop"
  /\ idx[c] > Len(arg[c])
  /\ outcome' = [outcome EXCEPT ![c] = Resolved(BatchValue(found[c], notFound[c]))]
  /\ pc' = [pc EXCEPT ![c] = "done"]
  /\ UNCHANGED <<op, arg, phoneNumber, idx, found, notFound, findResult,
                 exitCode, out, requests, visited,
                 overlapped>>

\* lines 84-117: the awaited inner call settled
DetailsResume(c) ==
  /\ pc[c] = "find_settled"
  /\ op[c] = "details"
  /\ outcome' = [outcome EXCEPT ![c] = DetailsSettle(findResult[c])]
  /\ out' = [out EXCEPT ![c] = @ \o DetailsLog(findResult[c])]
  /\ pc' = [pc EXCEPT ![c] = "done"]
  /\ UNCHANGED <<op, arg, phoneNumber, idx, found, notFound, findResult,
                 exitCode, requests, visited,
                 overlapped>>

\* lines 129-142: no argument, usage is printed and the process exits
CliUsage(c) ==
  /\ pc[c] = "cli_args"
  /\ IsFalsy(arg[c])
  /\ out' = [out EXCEPT ![c] = Append(@, "log: Usage")]
  /\ exitCode' = [exitCode EXCEPT ![c] = "1"]
  /\ pc' = [pc EXCEPT ![c] = "done"]
  /\ UNCHANGED <<op, arg, phoneNumber, idx, found, notFound, findResult,
                 outcome, requests, visited,
                 overlapped>>

\* lines 129-145: the argument is handed to findUserByPhoneNumber
CliSearch(c) ==
  /\ pc[c] = "cli_args"
  /\ ~IsFalsy(arg[c])
  /\ phoneNumber' = [phoneNumber EXCEPT ![c] = arg[c]]
  /\ pc' = [pc EXCEPT ![c] = "find_validate"]
  /\ UNCHANGED <<op, arg, idx, found, notFound, findResult, outcome, exitCode,
                 out, requests, visited,
                 overlapped>>

\* lines 146-157: the then / catch handlers
CliThen(c) ==
  /\ pc[c] = "find_settled"
  /\ op[c] = "cli"
  /\ out' = [out EXCEPT ![c] = Append(@, CliLog(findResult[c]))]
  /\ exitCode' = [exitCode EXCEPT ![c] = CliExit(findResult[c])]
  /\ outcome' = [outcome EXCEPT ![c] = findResult[c]]
  /\ pc' = [pc EXCEPT ![c] = "done"]
  /\ UNCHANGED <<op, arg, phoneNumber, idx, found, notFound, findResult,
                 requests, visited,
                 overlapped>>

\* the caller has taken the result; the slot is free for another invocation,
\* which shares nothing with this one
Return(c) ==
  /\ pc[c] = "done"
  /\ op' = [op EXCEPT ![c] = "none"]
  /\ arg' = [arg EXCEPT ![c] = JsUndefined]
  /\ pc' = [pc EXCEPT ![c] = "idle"]
  /\ phoneNumber' = [phoneNumber EXCEPT ![c] = JsUndefined]
  /\ idx' = [idx EXCEPT ![c] = 1]
  /\ found' = [found EXCEPT ![c] = <<>>]
  /\ notFound' = [notFound EXCEPT ![c] = <<>>]
  /\ findResult' = [findResult EXCEPT ![c] = Pending]
  /\ outcome' = [outcome EXCEPT ![c] = Pending]
  /\ exitCode' = [exitCode EXCEPT ![c] = NoExit]
  /\ out' = [out EXCEPT ![c] = <<>>]
  /\ requests' = [requests EXCEPT ![c] = <<>>]
  /\ visited' = [visited EXCEPT ![c] = <<>>]
  /\ overlapped' = [overlapped EXCEPT ![c] = FALSE]

\* the steps the program itself takes
Step(c) ==
  \/ FindReject(c)
  \/ FindRequest(c)
  \/ FindResume(c)
  \/ BatchNext(c)
  \/ BatchResume(c)
  \/ BatchReturn(c)
  \/ DetailsResume(c)
  \/ CliUsage(c)
  \/ CliSearch(c)
  \/ CliThen(c)

\* one invocation at a time
Next ==
  \/ \E o \in Ops : \E a \in Inputs(o) : Invoke(1, o, a)
  \/ \E resp \in Responses : RemoteSettle(1, resp)
  \/ Step(1)
  \/ Return(1)

Spec == Init /\ [][Next]_vars

\* the program keeps running and every remote call is eventually answered
FairSpec ==
  /\ Spec
  /\ WF_vars(Step(1))
  /\ WF_vars(\E resp \in Responses : RemoteSettle(1, resp))

\* two invocations of findUserByPhoneNumber / findUsersByPhoneNumbers at once
NextConc ==
  \E c \in AllCalls :
    \/ \E o \in ConcOps : \E a \in ConcInputs(o) : Invoke(c, o, a)
    \/ \E resp \in ConcResponses : RemoteSettle(c, resp)
    \/ FindReject(c)
    \/ FindRequest(c)
    \/ FindResume(c)
    \/ BatchNext(c)
    \/ BatchResume(c)
    \/ BatchReturn(c)
    \/ Return(c)

SpecConc == Init /\ [][NextConc]_vars

(***************************************************************************)
(* Vocabulary of the properties                                            *)
(***************************************************************************)
\* a non-empty string starting with '+'
WellFormedPhone(p) == p.typ = "string" /\ p.str # <<>> /\ p.str[1] = "+"

\* not a string, empty or otherwise falsy, or not starting with '+'
MalformedPhone(p) ==
  \/ p.typ # "string"
  \/ p.str = <<>>
  \/ p.str[1] # "+"

IsDone(c, o) == op[c] = o /\ pc[c] = "done"

\* the remote answered the request with the "not found" error code
AnsweredNotFound(r) ==
  r.answer # Pending /\ ~r.answer.ok /\ r.answer.error.code = "auth/user-not-found"

\* the remote answered the request with an error of some other code, or none
AnsweredOtherError(r) ==
  r.answer # Pending /\ ~r.answer.ok /\ r.answer.error.code # "auth/user-not-found"

AnsweredRecord(r) == r.answer # Pending /\ r.answer.ok

\* the numbers invocation c looks up
LookedUp(c) ==
  IF op[c] = "batch" THEN { arg[c][i] : i \in 1..Len(arg[c]) } ELSE { arg[c] }

\* a lookup of invocation c raised an error other than "not found"
OtherErrorRaised(c) ==
  \/ \E p \in LookedUp(c) : MalformedPhone(p)
  \/ \E j \in 1..Len(requests[c]) : AnsweredOtherError(requests[c][j])

(***************************************************************************)
(* C1                                                                      *)
(***************************************************************************)
\* C1: findUserByPhoneNumber(p) with a well-formed p makes one remote lookup
\* of p; it resolves to the record the remote returned, resolves to null on
\* the error code auth/user-not-found, and resolves in no other case.
C1_FindContract ==
  \A c \in AllCalls :
    (IsDone(c, "find") /\ WellFormedPhone(arg[c])) =>
      /\ Len(requests[c]) = 1
      /\ requests[c][1].phone = arg[c]
      /\ AnsweredRecord(requests[c][1]) =>
           outcome[c] = Resolved(RecordValue(requests[c][1].answer.user))
      /\ AnsweredNotFound(requests[c][1]) => outcome[c] = Resolved(JsNull)
      /\ outcome[c].kind = "resolved" =>
           AnsweredRecord(requests[c][1]) \/ AnsweredNotFound(requests[c][1])
      /\ outcome[c].kind \in {"resolved", "rejected"}

C1_Witness ==
  \E c \in AllCalls :
    /\ IsDone(c, "find")
    /\ WellFormedPhone(arg[c])
    /\ outcome[c] = Resolved(RecordValue(UserBob))

(***************************************************************************)
(* C2                                                                      *)
(***************************************************************************)
\* C2 as claimed: for each of the three exported operations, an error other
\* than "not found" raised by a lookup makes the operation reject.
C2_AllOperationsPropagate ==
  \A c \in AllCalls :
    (pc[c] = "done" /\ op[c] \in {"find", "details", "batch"}
       /\ OtherErrorRaised(c)) =>
      outcome[c].kind = "rejected"

\* C2 amended: findUserByPhoneNumber and getUserDetailsByPhoneNumber reject
\* on an error other than "not found" (with the remote's error when the
\* remote raised it); findUsersByPhoneNumbers catches it and resolves.
C2_SingleLookupsPropagate ==
  \A c \in AllCalls :
    /\ (pc[c] = "done" /\ op[c] \in {"find", "details"} /\ OtherErrorRaised(c)) =>
         /\ outcome[c].kind = "rejected"
         /\ requests[c] # <<>> => outcome[c] = Rejected(requests[c][1].answer.error)
    /\ (IsDone(c, "batch") /\ OtherErrorRaised(c)) => outcome[c].kind = "resolved"

C2_Witness ==
  \E c \in AllCalls :
    /\ IsDone(c, "details")
    /\ requests[c] # <<>>
    /\ AnsweredOtherError(requests[c][1])
    /\ outcome[c] = Rejected(ErrInternal)

(***************************************************************************)
(* C3                                                                      *)
(***************************************************************************)
\* C3: findUserByPhoneNumber(p) with a malformed p never calls the remote
\* lookup and never resolves; once settled it is rejected.
C3_ValidationFirst ==
  \A c \in AllCalls :
    (op[c] = "find" /\ MalformedPhone(arg[c])) =>
      /\ requests[c] = <<>>
      /\ outcome[c].kind # "resolved"
      /\ pc[c] = "done" => outcome[c].kind = "rejected"

C3_Witness ==
  \E c \in AllCalls :
    /\ IsDone(c, "find")
    /\ arg[c] = JsString(<<"1", "+">>)
    /\ outcome[c].kind = "rejected"

(***************************************************************************)
(* C4                                                                      *)
(***************************************************************************)
\* C4 as claimed: every number in the returned notFound is one the remote
\* reported as having no user, and every record in found was returned by the
\* remote for an input number.
C4_NotFoundMeansReported ==
  \A c \in AllCalls :
    IsDone(c, "batch") =>
      LET res == outcome[c].value
      IN /\ \A i \in 1..Len(res.notFound) :
              \E j \in 1..Len(requests[c]) :
                /\ requests[c][j].phone = res.notFound[i]
                /\ AnsweredNotFound(requests[c][j])
         /\ \A i \in 1..Len(res.found) :
              \E j \in 1..Len(requests[c]) :
                /\ requests[c][j].phone \in LookedUp(c)
                /\ AnsweredRecord(requests[c][j])
                /\ requests[c][j].answer.user = res.found[i]

(***************************************************************************)
(* C5                                                                      *)
(***************************************************************************)
\* the positions of the input for which the remote returned a record
RecordPositions(c) ==
  { requests[c][j].pos : j \in { k \in 1..Len(requests[c]) :
                                   AnsweredRecord(requests[c][k]) } }

\* the record the remote returned for position i
RecordAt(c, i) ==
  LET j == CHOOSE k \in 1..Len(requests[c]) : requests[c][k].pos = i
  IN requests[c][j].answer.user

\* the elements f[i] for the positions i..n that are in keep, in order
RECURSIVE PickFrom(_, _, _, _)
PickFrom(f, keep, i, n) ==
  IF i > n THEN <<>>
  ELSE IF i \in keep THEN <<f[i]>> \o PickFrom(f, keep, i + 1, n)
       ELSE PickFrom(f, keep, i + 1, n)

\* C5: findUsersByPhoneNumbers always resolves; every input position gives
\* exactly one entry, so |found| + |notFound| = |input|; notFound is the
\* input restricted to the positions without a record, in input order, and
\* found is the records returned, in the order of their positions.  While the
\* loop runs, the positions already passed have each given one entry.
C5_PartialSuccess ==
  \A c \in AllCalls :
    /\ (op[c] = "batch" /\ pc[c] = "loop") =>
         Len(found[c]) + Len(notFound[c]) = idx[c] - 1
    /\ IsDone(c, "batch") =>
         /\ outcome[c].kind = "resolved"
         /\ LET res == outcome[c].value
                n == Len(arg[c])
                hits == RecordPositions(c)
            IN /\ Len(res.found) + Len(res.notFound) = n
               /\ res.notFound = PickFrom(arg[c], (1..n) \ hits, 1, n)
               /\ res.found = PickFrom([i \in hits |-> RecordAt(c, i)], hits, 1, n)

C5_Witness ==
  \E c \in AllCalls :
    /\ IsDone(c, "batch")
    /\ Len(arg[c]) = 2
    /\ MalformedPhone(arg[c][1])
    /\ outcome[c].value.found = <<UserAnn>>
    /\ outcome[c].value.notFound = <<arg[c][1]>>

(***************************************************************************)
(* C6                                                                      *)
(***************************************************************************)
\* the fields the claim names agree between the details object and the record
SameFields(d, u) ==
  /\ d.uid = u.uid
  /\ d.email = u.email
  /\ d.phoneNumber = u.phoneNumber
  /\ d.displayName = u.displayName
  /\ d.photoURL = u.photoURL
  /\ d.emailVerified = u.emailVerified
  /\ d.disabled = u.disabled
  /\ d.metadata.creationTime = u.metadata.creationTime
  /\ d.metadata.lastSignInTime = u.metadata.lastSignInTime
  /\ d.metadata.lastRefreshTime = u.metadata.lastRefreshTime
  /\ d.customClaims =
       (IF u.customClaims.typ = "undefined" THEN [typ |-> "object", keys |-> {}]
        ELSE u.customClaims)
  /\ Len(d.providerData) = Len(u.providerData)
  /\ \A i \in 1..Len(u.providerData) :
       /\ d.providerData[i].uid = u.providerData[i].uid
       /\ d.providerData[i].providerId = u.providerData[i].providerId

\* C6: getUserDetailsByPhoneNumber resolves to null exactly when the inner
\* findUserByPhoneNumber resolved to null; for a found record it resolves to
\* an object with the record's fields, customClaims defaulting to an empty
\* object and providerData of the same length and order; when the inner call
\* rejects it rejects with the same error.
C6_DetailsShape ==
  \A c \in AllCalls :
    IsDone(c, "details") =>
      /\ outcome[c] = Resolved(JsNull) <=> findResult[c] = Resolved(JsNull)
      /\ (findResult[c].kind = "resolved" /\ findResult[c].value # JsNull) =>
           /\ outcome[c].kind = "resolved"
           /\ outcome[c].value.tag = "details"
           /\ SameFields(outcome[c].value.details, findResult[c].value.user)
      /\ findResult[c].kind = "rejected" =>
           outcome[c] = Rejected(findResult[c].error)
      /\ findResult[c].kind \in {"resolved", "rejected"}

C6_Witness ==
  \E c \in AllCalls :
    /\ IsDone(c, "details")
    /\ findResult[c] = Resolved(RecordValue(UserAnn))
    /\ outcome[c].value.details.customClaims = [typ |-> "object", keys |-> {}]
    /\ Len(outcome[c].value.details.providerData) = 2

(***************************************************************************)
(* C7                                                                      *)
(***************************************************************************)
\* C7: the CLI run without an argument prints usage, exits with status 1 and
\* never calls the remote lookup; run with an argument it exits with status 1
\* when the lookup resolves to null or rejects, and process.exit(1) is not
\* called when the user is found.
C7_CliExit ==
  \A c \in AllCalls :
    op[c] = "cli" =>
      /\ arg[c] = JsUndefined =>
           /\ requests[c] = <<>>
           /\ pc[c] = "done" =>
                /\ exitCode[c] = "1"
                /\ \E i \in 1..Len(out[c]) : out[c][i] = "log: Usage"
      /\ (arg[c] # JsUndefined /\ pc[c] = "done") =>
           /\ findResult[c] = Resolved(JsNull) => exitCode[c] = "1"
           /\ findResult[c].kind = "rejected" => exitCode[c] = "1"
           /\ (findResult[c].kind = "resolved" /\ findResult[c].value # JsNull) =>
                exitCode[c] = "none"

C7_Witness ==
  \E c \in AllCalls :
    /\ IsDone(c, "cli")
    /\ arg[c] = JsString(<<"+", "1">>)
    /\ findResult[c] = Resolved(JsNull)
    /\ exitCode[c] = "1"

(***************************************************************************)
(* C8                                                                      *)
(***************************************************************************)
\* C8: within one findUsersByPhoneNumbers call at most one remote lookup is
\* pending; a lookup is issued only when all earlier ones are answered;
\* lookups are issued in input order, at most one per position, for the
\* number at that position, and only for well-formed numbers; once the call
\* is done every well-formed position has had its lookup.
C8_SequentialNoRetry ==
  \A c \in AllCalls :
    op[c] = "batch" =>
      LET n == Len(requests[c])
      IN /\ Cardinality({ j \in 1..n : requests[c][j].answer = Pending }) <= 1
         /\ \A j \in 1..n : j < n => requests[c][j].answer # Pending
         /\ \A j, k \in 1..n : j < k => requests[c][j].pos < requests[c][k].pos
         /\ \A j \in 1..n :
              /\ requests[c][j].pos \in 1..Len(arg[c])
              /\ requests[c][j].phone = arg[c][requests[c][j].pos]
              /\ WellFormedPhone(requests[c][j].phone)
         /\ pc[c] = "done" =>
              \A i \in 1..Len(arg[c]) :
                WellFormedPhone(arg[c][i]) =>
                  \E j \in 1..n : requests[c][j].pos = i

C8_Witness ==
  \E c \in AllCalls :
    /\ op[c] = "batch"
    /\ pc[c] = "awaiting"
    /\ Len(requests[c]) = 2
    /\ AnsweredOtherError(requests[c][1])
    /\ requests[c][2].answer = Pending
    /\ requests[c][2].phone = requests[c][1].phone

(***************************************************************************)
(* C9                                                                      *)
(***************************************************************************)
\* C9: when every remote lookup is eventually answered, a running
\* findUsersByPhoneNumbers eventually resolves, having entered every input
\* position exactly once, in order, whatever failed on the way.
C9_BatchTerminates ==
  \A c \in {1} :
    [](op[c] = "batch" =>
         <>(/\ IsDone(c, "batch")
            /\ outcome[c].kind = "resolved"
            /\ visited[c] = [i \in 1..Len(arg[c]) |-> i]))

C9_Witness ==
  \E c \in AllCalls :
    /\ IsDone(c, "batch")
    /\ Len(arg[c]) = 2
    /\ visited[c] = <<1, 2>>
    /\ Len(requests[c]) = 2
    /\ requests[c][1].pos = 1
    /\ AnsweredOtherError(requests[c][1])
    /\ outcome[c].kind = "resolved"

(***************************************************************************)
(* C10                                                                     *)
(***************************************************************************)
\* the answers the remote gave to invocation c, in the order it asked
Answers(c) == [j \in 1..Len(requests[c]) |-> requests[c][j].answer]

\* findUserByPhoneNumber run alone: answers[k] is the remote's next answer
AloneFind(p, answers, k) ==
  IF Validate(p).ok THEN FindSettle(answers[k]) ELSE CatchFind(Validate(p).error)

\* findUsersByPhoneNumbers run alone from position i on
RECURSIVE AloneBatch(_, _, _, _, _)
AloneBatch(phones, answers, i, k, acc) ==
  IF i > Len(phones) THEN Resolved(BatchValue(acc.found, acc.notFound))
  ELSE AloneBatch(phones, answers, i + 1,
                  IF Validate(phones[i]).ok THEN k + 1 ELSE k,
                  BatchAccumulate(acc, phones[i], AloneFind(phones[i], answers, k)))

Alone(o, a, answers) ==
  IF o = "batch"
    THEN AloneBatch(a, answers, 1, 1, [found |-> <<>>, notFound |-> <<>>])
    ELSE AloneFind(a, answers, 1)

\* C10: with two invocations in progress at once, each settled invocation's
\* result is the one it gives run alone on the answers the remote gave to it,
\* it asked the remote only about its own input, and its notFound holds only
\* numbers of its own input.
C10_Isolation ==
  \A c \in AllCalls :
    (pc[c] = "done" /\ op[c] \in {"find", "batch"}) =>
      /\ outcome[c] = Alone(op[c], arg[c], Answers(c))
      /\ \A j \in 1..Len(requests[c]) : requests[c][j].phone \in LookedUp(c)
      /\ op[c] = "batch" =>
           \A i \in 1..Len(outcome[c].value.notFound) :
             outcome[c].value.notFound[i] \in LookedUp(c)

C10_Witness ==
  \E c, d \in AllCalls :
    /\ c # d
    /\ overlapped[c]
    /\ overlapped[d]
    /\ IsDone(c, "batch")
    /\ IsDone(d, "batch")
    /\ outcome[c].value.found = <<UserAnn>>
    /\ outcome[c].value.notFound = <<>>
    /\ outcome[d].value.found = <<>>
    /\ Len(outcome[d].value.notFound) = 2

====
